---- MODULE Spec2Model ----
(***************************************************************************)
(* Model of app-store/generate_icon.py: the icon renderer create_icon and  *)
(* the export script (__main__) that writes the primary icon, the iOS      *)
(* variants and the Contents.json manifest.                                *)
(*                                                                         *)
(* Numbers.  base_size is an int for every table entry but one, the float  *)
(* 83.5.  A number is a record [h, float]: h is twice its value (so 83.5   *)
(* is h = 167) and float tells a Python float from a Python int, which     *)
(* matters to str() only.  Canvas coordinates x * s with s = size / 1024   *)
(* are kept as the exact numerator x * size over the denominator 1024.     *)
(***************************************************************************)
EXTENDS Integers, Sequences, FiniteSets, TLC

VARIABLES
    run,        \* number of the current invocation of the script
    pc,         \* position of __main__
    i,          \* index of the current ios_sizes entry (for loop, line 92)
    contents,   \* the in-memory manifest dict (line 87)
    cpc,        \* position inside create_icon
    arg,        \* create_icon's parameter size
    k,          \* index of the current drawing loop of create_icon
    canvas,     \* img / draw: the image being drawn and its drawing calls
    dirs,       \* directories that exist on disk
    fs,         \* files on disk: path -> content
    written,    \* paths completely written by the current invocation
    dumps,      \* completed json.dump calls of the current invocation
    failedAt,   \* the step whose exception ended the invocation
    doneFiles   \* the files on disk at each completed invocation, in order

vars == <<run, pc, i, contents, cpc, arg, k, canvas, dirs, fs, written, dumps,
          failedAt, doneFiles>>

mainVars == <<run, pc, i, contents, dirs, fs, written, dumps, failedAt, doneFiles>>

renderVars == <<cpc, arg, k, canvas>>

(***************************************************************************)
(* Bounds of the model.                                                    *)
(***************************************************************************)
MaxRuns == 2        \* invocations of the script in one behaviour

MaxSize == 4        \* largest small size a reusing caller passes to create_icon

MinSize == 3        \* a reusing caller passes sizes down to -MinSize

(***************************************************************************)
(* Python numbers and their conversions.                                   *)
(***************************************************************************)
PyInt(n) == [h |-> 2 * n, float |-> FALSE]

PyFloatHalves(h) == [h |-> h, float |-> TRUE]

\* x * scale for a number x and an int scale
Times(x, scale) == [h |-> x.h * scale, float |-> x.float]

\* int(x): truncation toward zero
int(x) == IF x.h >= 0 THEN x.h \div 2 ELSE -((-x.h) \div 2)

\* round(x) as Python computes it: to nearest, a tie to the even neighbour
round(x) ==
    LET lo == x.h \div 2
    IN  IF x.h % 2 = 0 THEN lo
        ELSE IF lo % 2 = 0 THEN lo ELSE lo + 1

\* round-half-up, the "standard rounding" of arithmetic
roundHalfUp(x) == (x.h + 1) \div 2

\* str(x) inside an f-string: an int prints its digits, a float prints at
\* least one fractional digit
str(x) ==
    IF x.float
    THEN ToString(x.h \div 2) \o "." \o (IF x.h % 2 = 0 THEN "0" ELSE "5")
    ELSE ToString(x.h \div 2)

\* x == y on numbers: by value, whatever the type
NumEq(x, y) == x.h = y.h

(***************************************************************************)
(* create_icon: the geometry tables and the drawing calls.                 *)
(***************************************************************************)
background == "#0f172a"

accent == "#22d3a8"

bonds ==
    << <<380, 360, 450, 340>>,
       <<574, 340, 644, 360>>,
       <<340, 470, 380, 540>>,
       <<684, 470, 644, 540>>,
       <<460, 640, 500, 720>>,
       <<564, 640, 524, 720>>,
       <<470, 580, 554, 580>> >>

circles ==
    << <<320, 400, 80>>,
       <<512, 320, 80>>,
       <<704, 400, 80>>,
       <<400, 600, 80>>,
       <<624, 600, 80>>,
       <<512, 780, 80>> >>

inner_r == 32

\* int(24 * s), s = size / 1024
line_width(size) == (24 * size) \div 1024

\* draw.line for bond b: endpoints scaled by s (numerators over 1024)
LineOp(b, size) ==
    [kind |-> "line",
     xy |-> <<b[1] * size, b[2] * size, b[3] * size, b[4] * size>>,
     fill |-> accent,
     width |-> line_width(size)]

\* draw.ellipse with the bounding box of the disk of radius r about (cx, cy)
EllipseOp(kind, c, r, fill, size) ==
    [kind |-> kind,
     xy |-> <<(c[1] - r) * size, (c[2] - r) * size,
              (c[1] + r) * size, (c[2] + r) * size>>,
     fill |-> fill,
     width |-> 0]

NoCanvas == [alloc |-> FALSE, size |-> 0, ops |-> <<>>]

\* Image.new('RGB', (size, size), ...): Pillow refuses a negative side with
\* ValueError and accepts 0 (an empty image)
ImageNewRaises(size) == size < 0

\* line 8, 9, 12: the canvas is allocated
Alloc ==
    /\ cpc = "alloc"
    /\ ~ImageNewRaises(arg)
    /\ canvas' = [alloc |-> TRUE, size |-> arg, ops |-> <<>>]
    /\ cpc' = "bonds"
    /\ k' = 1
    /\ UNCHANGED <<arg, mainVars>>

\* line 8 raising: create_icon ends with the exception, nothing is returned
AllocRaise ==
    /\ cpc = "alloc"
    /\ ImageNewRaises(arg)
    /\ cpc' = "raised"
    /\ UNCHANGED <<arg, k, canvas, mainVars>>

\* lines 32-37: one iteration of the bonds loop
DrawBond ==
    /\ cpc = "bonds"
    /\ canvas' = [canvas EXCEPT !.ops = Append(@, LineOp(bonds[k], canvas.size))]
    /\ IF k < Len(bonds)
       THEN k' = k + 1 /\ cpc' = cpc
       ELSE k' = 1 /\ cpc' = "outer"
    /\ UNCHANGED <<arg, mainVars>>

\* a variant of lines 49-63 that punches each disk right after drawing it
DrawOuterAndPunch ==
    /\ cpc = "outer"
    /\ canvas' = [canvas EXCEPT !.ops =
                    Append(Append(@, EllipseOp("outer", circles[k], circles[k][3],
                                               accent, canvas.size)),
                           EllipseOp("inner", circles[k], inner_r,
                                     background, canvas.size))]
    /\ IF k < Len(circles)
       THEN k' = k + 1 /\ cpc' = cpc
       ELSE k' = 1 /\ cpc' = "inner"
    /\ UNCHANGED <<arg, mainVars>>

\* lines 49-54: one iteration of the outer circles loop
DrawOuter ==
    /\ cpc = "outer"
    /\ canvas' = [canvas EXCEPT !.ops =
                    Append(@, EllipseOp("outer", circles[k], circles[k][3],
                                        accent, canvas.size))]
    /\ IF k < Len(circles)
       THEN k' = k + 1 /\ cpc' = cpc
       ELSE k' = 1 /\ cpc' = "inner"
    /\ UNCHANGED <<arg, mainVars>>

\* lines 58-63: one iteration of the inner circles loop
DrawInner ==
    /\ cpc = "inner"
    /\ canvas' = [canvas EXCEPT !.ops =
                    Append(@, EllipseOp("inner", circles[k], inner_r,
                                        background, canvas.size))]
    /\ IF k < Len(circles)
       THEN k' = k + 1 /\ cpc' = cpc
       ELSE k' = 1 /\ cpc' = "return"
    /\ UNCHANGED <<arg, mainVars>>

\* line 65: return img
Return ==
    /\ cpc = "return"
    /\ cpc' = "returned"
    /\ UNCHANGED <<arg, k, canvas, mainVars>>

(***************************************************************************)
(* __main__: the export tables and the pure parts of the loop body.        *)
(***************************************************************************)
ios_sizes ==
    << [base_size |-> PyInt(20), scale |-> 1],
       [base_size |-> PyInt(20), scale |-> 2],
       [base_size |-> PyInt(20), scale |-> 3],
       [base_size |-> PyInt(29), scale |-> 1],
       [base_size |-> PyInt(29), scale |-> 2],
       [base_size |-> PyInt(29), scale |-> 3],
       [base_size |-> PyInt(40), scale |-> 1],
       [base_size |-> PyInt(40), scale |-> 2],
       [base_size |-> PyInt(40), scale |-> 3],
       [base_size |-> PyInt(60), scale |-> 2],
       [base_size |-> PyInt(60), scale |-> 3],
       [base_size |-> PyInt(76), scale |-> 1],
       [base_size |-> PyInt(76), scale |-> 2],
       [base_size |-> PyFloatHalves(167), scale |-> 2],
       [base_size |-> PyInt(1024), scale |-> 1] >>

primarySize == 1024

primaryPath == "app-store/icon-1024.png"

appStoreDir == "app-store"

iconsetDir == "app-store/AppIcon.appiconset"

manifestPath == "app-store/AppIcon.appiconset/Contents.json"

\* a variant of line 93 that truncates before it multiplies
sizeTruncFirst(e) == int(e.base_size) * e.scale

\* line 93: size = int(base_size * scale)
size(e) == int(Times(e.base_size, e.scale))

\* a variant of line 94 that leaves the scale out of the name
filenameNoScale(e) == "icon-" \o str(e.base_size) \o ".png"

\* line 94: filename = f"icon-{base_size}@{scale}x.png"
filename(e) == "icon-" \o str(e.base_size) \o "@" \o ToString(e.scale) \o "x.png"

\* a variant of line 97 that names the file after its pixel size
variantPathBySize(e) == iconsetDir \o "/icon-" \o ToString(size(e)) \o ".png"

\* line 97: f'app-store/AppIcon.appiconset/{filename}'
variantPath(e) == iconsetDir \o "/" \o filename(e)

\* a variant of line 99 whose ipad list holds the int 83 for 83.5
idiomIntOnly(e) ==
    IF \E n \in {20, 29, 40, 60} : NumEq(e.base_size, PyInt(n))
    THEN "iphone"
    ELSE IF \E n \in {76, 83} : NumEq(e.base_size, PyInt(n))
         THEN "ipad"
         ELSE "ios-marketing"

\* line 99
idiom(e) ==
    IF \E n \in {20, 29, 40, 60} : NumEq(e.base_size, PyInt(n))
    THEN "iphone"
    ELSE IF \/ NumEq(e.base_size, PyInt(76))
            \/ NumEq(e.base_size, PyFloatHalves(167))
         THEN "ipad"
         ELSE "ios-marketing"

\* a variant of lines 101-106 whose size label is the pixel size
descriptorPixelSize(e) ==
    [filename |-> filename(e),
     idiom |-> idiom(e),
     scale |-> ToString(e.scale) \o "x",
     size |-> ToString(size(e)) \o "x" \o ToString(size(e))]

\* lines 101-106: the descriptor appended for entry e
descriptor(e) ==
    [filename |-> filename(e),
     idiom |-> idiom(e),
     scale |-> ToString(e.scale) \o "x",
     size |-> str(e.base_size) \o "x" \o str(e.base_size)]

NoContents == [images |-> <<>>, info |-> [author |-> "", version |-> 0]]

\* lines 87-90
newContents == [images |-> <<>>, info |-> [author |-> "xcode", version |-> 1]]

(***************************************************************************)
(* json.dump(contents, f, indent=2): the text written to Contents.json.    *)
(* Keys come in insertion order; the values here hold no character that    *)
(* JSON escapes.                                                           *)
(***************************************************************************)
NL == "\n"

JsonStr(s) == "\"" \o s \o "\""

JsonImage(d) ==
    "    {" \o NL
    \o "      \"filename\": " \o JsonStr(d.filename) \o "," \o NL
    \o "      \"idiom\": " \o JsonStr(d.idiom) \o "," \o NL
    \o "      \"scale\": " \o JsonStr(d.scale) \o "," \o NL
    \o "      \"size\": " \o JsonStr(d.size) \o NL
    \o "    }"

RECURSIVE JsonImages(_)
JsonImages(ds) ==
    IF Len(ds) = 1 THEN JsonImage(ds[1])
    ELSE JsonImage(ds[1]) \o "," \o NL \o JsonImages(Tail(ds))

JsonDump(c) ==
    "{" \o NL
    \o "  \"images\": "
    \o (IF c.images = <<>> THEN "[]"
        ELSE "[" \o NL \o JsonImages(c.images) \o NL \o "  ]")
    \o "," \o NL
    \o "  \"info\": {" \o NL
    \o "    \"author\": " \o JsonStr(c.info.author) \o "," \o NL
    \o "    \"version\": " \o ToString(c.info.version) \o NL
    \o "  }" \o NL
    \o "}"

(***************************************************************************)
(* The filesystem.                                                         *)
(***************************************************************************)
NoFiles == [p \in {} |-> 0]

\* the PNG file of image img resampled to w x h
PngFile(img, w, h) ==
    [kind |-> "png", w |-> w, h |-> h, drawn |-> Len(img.ops), text |-> ""]

JsonFile(text) == [kind |-> "json", w |-> 0, h |-> 0, drawn |-> 0, text |-> text]

\* what a write that failed part-way leaves at its path
PartialFile == [kind |-> "partial", w |-> 0, h |-> 0, drawn |-> 0, text |-> ""]

\* a variant of the write that opens the manifest for appending ('a')
PutAppend(files, path, c) ==
    [p \in (DOMAIN files) \cup {path} |->
        IF p # path THEN files[p]
        ELSE IF path \in DOMAIN files /\ c.kind = "json"
             THEN [c EXCEPT !.text = files[path].text \o c.text]
             ELSE c]

Put(files, path, c) ==
    [p \in (DOMAIN files) \cup {path} |-> IF p = path THEN c ELSE files[p]]

\* the outcomes of a write to path that raises: the file could not be
\* opened (nothing changes) or the write broke off part-way
AfterFailedWrite(files, path, dir) ==
    IF dir \in dirs THEN {files, Put(files, path, PartialFile)} ELSE {files}

\* a variant in which the exception of step is caught and the step retried
AbortSwallowed(step) ==
    /\ pc' = pc
    /\ failedAt' = step
    /\ UNCHANGED <<run, i, contents, written, dumps, doneFiles, renderVars>>

\* the uncaught exception of step ends the invocation
Abort(step) ==
    /\ pc' = "failed"
    /\ failedAt' = step
    /\ UNCHANGED <<run, i, contents, written, dumps, doneFiles, renderVars>>

\* create_icon(1024) is called
CallCreateIcon ==
    /\ cpc' = "alloc"
    /\ arg' = primarySize
    /\ k' = 1
    /\ canvas' = NoCanvas

(***************************************************************************)
(* __main__, step by step.                                                 *)
(***************************************************************************)
\* line 70: icon.save('app-store/icon-1024.png', 'PNG')
SavePrimary ==
    /\ pc = "create_primary"
    /\ cpc = "returned"
    /\ appStoreDir \in dirs
    /\ fs' = Put(fs, primaryPath, PngFile(canvas, canvas.size, canvas.size))
    /\ written' = written \cup {primaryPath}
    /\ pc' = "makedirs"
    /\ UNCHANGED <<run, i, contents, dirs, dumps, failedAt, doneFiles, renderVars>>

SavePrimaryFails ==
    /\ pc = "create_primary"
    /\ cpc = "returned"
    /\ fs' \in AfterFailedWrite(fs, primaryPath, appStoreDir)
    /\ Abort("save_primary")
    /\ UNCHANGED dirs

\* lines 85-90: os.makedirs(..., exist_ok=True), then contents = {...}
MakeDirs ==
    /\ pc = "makedirs"
    /\ dirs' = dirs \cup {appStoreDir, iconsetDir}
    /\ contents' = newContents
    /\ i' = 1
    /\ pc' = "loop"
    /\ UNCHANGED <<run, fs, written, dumps, failedAt, doneFiles, renderVars>>

MakeDirsFails ==
    /\ pc = "makedirs"
    /\ Abort("makedirs")
    /\ UNCHANGED <<dirs, fs>>

\* lines 92-96: the next entry is taken and create_icon(1024) is called
NextEntry ==
    /\ pc = "loop"
    /\ i <= Len(ios_sizes)
    /\ CallCreateIcon
    /\ pc' = "create_variant"
    /\ UNCHANGED <<run, i, contents, dirs, fs, written, dumps, failedAt, doneFiles>>

\* lines 96-97: .resize((size, size), LANCZOS), then .save(...)
SaveVariant ==
    /\ pc = "create_variant"
    /\ cpc = "returned"
    /\ iconsetDir \in dirs
    /\ LET e == ios_sizes[i]
       IN  /\ fs' = Put(fs, variantPath(e), PngFile(canvas, size(e), size(e)))
           /\ written' = written \cup {variantPath(e)}
    /\ pc' = "append"
    /\ UNCHANGED <<run, i, contents, dirs, dumps, failedAt, doneFiles, renderVars>>

SaveVariantFails ==
    /\ pc = "create_variant"
    /\ cpc = "returned"
    /\ fs' \in AfterFailedWrite(fs, variantPath(ios_sizes[i]), iconsetDir)
    /\ Abort("save_variant")
    /\ UNCHANGED dirs

\* lines 99-106: the idiom is classified and the descriptor appended
AppendEntry ==
    /\ pc = "append"
    /\ contents' = [contents EXCEPT !.images = Append(@, descriptor(ios_sizes[i]))]
    /\ i' = i + 1
    /\ pc' = "loop"
    /\ UNCHANGED <<run, dirs, fs, written, dumps, failedAt, doneFiles, renderVars>>

\* a variant of lines 109-112 that does not wait for the loop to end
DumpInLoop ==
    /\ pc = "loop"
    /\ i > 1
    /\ iconsetDir \in dirs
    /\ fs' = Put(fs, manifestPath, JsonFile(JsonDump(contents)))
    /\ written' = written \cup {manifestPath}
    /\ dumps' = dumps + 1
    /\ doneFiles' = Append(doneFiles, fs')
    /\ pc' = "done"
    /\ UNCHANGED <<run, i, contents, dirs, failedAt, renderVars>>

\* lines 109-112: open(..., 'w'), json.dump, and the script ends
Dump ==
    /\ pc = "loop"
    /\ i > Len(ios_sizes)
    /\ iconsetDir \in dirs
    /\ fs' = Put(fs, manifestPath, JsonFile(JsonDump(contents)))
    /\ written' = written \cup {manifestPath}
    /\ dumps' = dumps + 1
    /\ doneFiles' = Append(doneFiles, fs')
    /\ pc' = "done"
    /\ UNCHANGED <<run, i, contents, dirs, failedAt, renderVars>>

DumpFails ==
    /\ pc = "loop"
    /\ i > Len(ios_sizes)
    /\ fs' \in AfterFailedWrite(fs, manifestPath, iconsetDir)
    /\ Abort("dump")
    /\ UNCHANGED dirs

\* the script is run again; what is on disk stays
Rerun ==
    /\ pc \in {"done", "failed"}
    /\ run < MaxRuns
    /\ run' = run + 1
    /\ pc' = "create_primary"
    /\ i' = 1
    /\ contents' = NoContents
    /\ written' = {}
    /\ dumps' = 0
    /\ failedAt' = "none"
    /\ CallCreateIcon
    /\ UNCHANGED <<dirs, fs, doneFiles>>

(***************************************************************************)
(* The export script: line 69 calls create_icon(1024) first.               *)
(***************************************************************************)
Init ==
    /\ run = 1
    /\ pc = "create_primary"
    /\ i = 1
    /\ contents = NoContents
    /\ cpc = "alloc"
    /\ arg = primarySize
    /\ k = 1
    /\ canvas = NoCanvas
    /\ dirs \in {{}, {appStoreDir}, {appStoreDir, iconsetDir}}
    /\ fs = NoFiles
    /\ written = {}
    /\ dumps = 0
    /\ failedAt = "none"
    /\ doneFiles = <<>>

Next ==
    \/ Alloc
    \/ DrawBond
    \/ DrawOuter
    \/ DrawInner
    \/ Return
    \/ SavePrimary
    \/ SavePrimaryFails
    \/ MakeDirs
    \/ MakeDirsFails
    \/ NextEntry
    \/ SaveVariant
    \/ SaveVariantFails
    \/ AppendEntry
    \/ Dump
    \/ DumpFails
    \/ Rerun

Spec == Init /\ [][Next]_vars

(***************************************************************************)
(* create_icon reused by another caller with any size.                     *)
(***************************************************************************)
RenderSizes == (-MinSize .. MaxSize) \cup {primarySize}

InitRender ==
    /\ run = 1
    /\ pc = "reuse"
    /\ i = 1
    /\ contents = NoContents
    /\ cpc = "alloc"
    /\ arg \in RenderSizes
    /\ k = 1
    /\ canvas = NoCanvas
    /\ dirs = {}
    /\ fs = NoFiles
    /\ written = {}
    /\ dumps = 0
    /\ failedAt = "none"
    /\ doneFiles = <<>>

NextRender ==
    \/ Alloc
    \/ AllocRaise
    \/ DrawBond
    \/ DrawOuter
    \/ DrawInner
    \/ Return

SpecRender == InitRender /\ [][NextRender]_vars

(***************************************************************************)
(* Properties.                                                             *)
(***************************************************************************)
\* the path under which the file of a manifest entry is looked for
PathOfEntry(d) == iconsetDir \o "/" \o d.filename

variantsWritten == written \ {primaryPath, manifestPath}

\* the images list that lines 92-106 build, written out
ExpectedImages ==
    << [filename |-> "icon-20@1x.png", idiom |-> "iphone", scale |-> "1x", size |-> "20x20"],
       [filename |-> "icon-20@2x.png", idiom |-> "iphone", scale |-> "2x", size |-> "20x20"],
       [filename |-> "icon-20@3x.png", idiom |-> "iphone", scale |-> "3x", size |-> "20x20"],
       [filename |-> "icon-29@1x.png", idiom |-> "iphone", scale |-> "1x", size |-> "29x29"],
       [filename |-> "icon-29@2x.png", idiom |-> "iphone", scale |-> "2x", size |-> "29x29"],
       [filename |-> "icon-29@3x.png", idiom |-> "iphone", scale |-> "3x", size |-> "29x29"],
       [filename |-> "icon-40@1x.png", idiom |-> "iphone", scale |-> "1x", size |-> "40x40"],
       [filename |-> "icon-40@2x.png", idiom |-> "iphone", scale |-> "2x", size |-> "40x40"],
       [filename |-> "icon-40@3x.png", idiom |-> "iphone", scale |-> "3x", size |-> "40x40"],
       [filename |-> "icon-60@2x.png", idiom |-> "iphone", scale |-> "2x", size |-> "60x60"],
       [filename |-> "icon-60@3x.png", idiom |-> "iphone", scale |-> "3x", size |-> "60x60"],
       [filename |-> "icon-76@1x.png", idiom |-> "ipad", scale |-> "1x", size |-> "76x76"],
       [filename |-> "icon-76@2x.png", idiom |-> "ipad", scale |-> "2x", size |-> "76x76"],
       [filename |-> "icon-83.5@2x.png", idiom |-> "ipad", scale |-> "2x", size |-> "83.5x83.5"],
       [filename |-> "icon-1024@1x.png", idiom |-> "ios-marketing", scale |-> "1x", size |-> "1024x1024"] >>

\* C1: after a successful export the manifest's images list has as many
\* entries as ios_sizes (15), the filenames of its entries are pairwise
\* distinct, and each names a file this invocation wrote into
\* app-store/AppIcon.appiconset/.
C1_ManifestMatchesFiles ==
    pc = "done" =>
        LET im == contents.images
        IN  /\ Len(im) = Len(ios_sizes)
            /\ Len(im) = 15
            /\ \A a, b \in 1..Len(im) : a # b => im[a].filename # im[b].filename
            /\ \A a \in 1..Len(im) :
                  /\ PathOfEntry(im[a]) \in written
                  /\ PathOfEntry(im[a]) \in DOMAIN fs
                  /\ fs[PathOfEntry(im[a])].kind = "png"

C1_Witness ==
    /\ pc = "done"
    /\ Len(contents.images) = 15
    /\ manifestPath \in written

\* C2: a successful export writes exactly len(ios_sizes) + 1 = 16 distinct
\* image files, the primary one among them, and exactly one manifest file.
C2_FileCount ==
    pc = "done" =>
        LET pngs == {p \in written : fs[p].kind = "png"}
            jsons == {p \in written : fs[p].kind = "json"}
        IN  /\ Cardinality(pngs) = Len(ios_sizes) + 1
            /\ Cardinality(pngs) = 16
            /\ primaryPath \in pngs
            /\ jsons = {manifestPath}
            /\ dumps = 1
            /\ written = pngs \cup jsons
            /\ DOMAIN fs = written

C2_Witness ==
    /\ pc = "done"
    /\ run = 2
    /\ Cardinality(DOMAIN fs) = 17

\* C3: the variant written for an entry (nominalSize, scaleMultiplier) is
\* pixelSize x pixelSize with pixelSize = round(nominalSize x scaleMultiplier),
\* whether ties round to even or up; (60, 3) gives 180, (83.5, 2) gives 167
\* and (1024, 1) gives 1024.
C3_PixelSizeIsRounded ==
    /\ \A j \in 1..Len(ios_sizes) :
          LET e == ios_sizes[j]
              p == iconsetDir \o "/" \o ExpectedImages[j].filename
          IN  p \in written =>
                 /\ fs[p].w = round(Times(e.base_size, e.scale))
                 /\ fs[p].w = roundHalfUp(Times(e.base_size, e.scale))
                 /\ fs[p].h = fs[p].w
    /\ "app-store/AppIcon.appiconset/icon-60@3x.png" \in written =>
          fs["app-store/AppIcon.appiconset/icon-60@3x.png"].w = 180
    /\ "app-store/AppIcon.appiconset/icon-83.5@2x.png" \in written =>
          fs["app-store/AppIcon.appiconset/icon-83.5@2x.png"].w = 167
    /\ "app-store/AppIcon.appiconset/icon-1024@1x.png" \in written =>
          fs["app-store/AppIcon.appiconset/icon-1024@1x.png"].w = 1024
    /\ pc = "done" => \A j \in 1..Len(ios_sizes) :
          (iconsetDir \o "/" \o ExpectedImages[j].filename) \in written

C3_Witness ==
    /\ pc = "append"
    /\ i = 14
    /\ "app-store/AppIcon.appiconset/icon-83.5@2x.png" \in written
    /\ fs["app-store/AppIcon.appiconset/icon-83.5@2x.png"].w = 167

\* C4: the idiom of a manifest entry depends on the nominal size only:
\* 20, 29, 40, 60 give "iphone", 76 and 83.5 give "ipad", anything else
\* "ios-marketing"; the finished manifest has 11 iphone entries, 3 ipad
\* entries and 1 ios-marketing entry.  (twice is twice the nominal size.)
C4_IdiomBySize ==
    LET im == contents.images
        count(tag) == Cardinality({j \in 1..Len(im) : im[j].idiom = tag})
    IN  /\ \A j \in 1..Len(im) :
              LET twice == ios_sizes[j].base_size.h
              IN  im[j].idiom =
                     IF twice \in {40, 58, 80, 120} THEN "iphone"
                     ELSE IF twice \in {152, 167} THEN "ipad"
                     ELSE "ios-marketing"
        /\ \A a, b \in 1..Len(im) :
              im[a].size = im[b].size => im[a].idiom = im[b].idiom
        /\ pc = "done" =>
              /\ count("iphone") = 11
              /\ count("ipad") = 3
              /\ count("ios-marketing") = 1
              /\ im[15].size = "1024x1024"

C4_Witness ==
    /\ pc = "done"
    /\ contents.images[14].idiom = "ipad"
    /\ contents.images[15].idiom = "ios-marketing"

\* C5: the i-th manifest entry describes the i-th ios_sizes entry, as
\* {filename: "icon-<n>@<k>x.png", idiom, scale: "<k>x", size: "<n>x<n>"};
\* the 11th is the entry of (60, 3).
C5_EntriesInTableOrder ==
    /\ Len(contents.images) <= Len(ExpectedImages)
    /\ \A j \in 1..Len(contents.images) : contents.images[j] = ExpectedImages[j]
    /\ pc = "done" => contents.images = ExpectedImages
    /\ Len(contents.images) >= 11 =>
          contents.images[11] = [filename |-> "icon-60@3x.png", idiom |-> "iphone",
                                 scale |-> "3x", size |-> "60x60"]

C5_Witness ==
    /\ pc = "loop"
    /\ i = 12
    /\ contents.images[11].filename = "icon-60@3x.png"

\* C6: create_icon called with size <= 0 is rejected before a canvas is
\* allocated or anything is drawn and returns no image; with size > 0 it
\* raises nothing.
C6_NonPositiveSizeRejected ==
    /\ arg <= 0 => (cpc \in {"alloc", "raised"} /\ canvas = NoCanvas)
    /\ arg > 0 => cpc # "raised"

\* C7: a step that raises ends the invocation there: what this invocation
\* had written stays as it was, no manifest is written, and nothing more
\* happens in the invocation (the only step from a failed state is a new
\* invocation of the script).
C7_AbortOnIOFailure ==
    [][ /\ pc = "failed" => (run' = run + 1 /\ fs' = fs /\ dirs' = dirs)
        /\ (pc # "failed" /\ failedAt' # failedAt) =>
              /\ pc' = "failed"
              /\ written' = written
              /\ dumps' = dumps
              /\ contents' = contents
              /\ \A p \in written : p \in DOMAIN fs' /\ fs'[p] = fs[p]
              /\ manifestPath \notin written'
              /\ failedAt' # "dump" =>
                    /\ (manifestPath \in DOMAIN fs') = (manifestPath \in DOMAIN fs)
                    /\ manifestPath \in DOMAIN fs => fs'[manifestPath] = fs[manifestPath]
      ]_vars

C7_Witness ==
    /\ pc = "failed"
    /\ failedAt = "save_variant"
    /\ i = 5
    /\ Cardinality(written) = 5

\* C8: every completed export leaves the same files with the same content,
\* the manifest text included, whatever an earlier invocation left on disk.
C8_Idempotent ==
    \A a, b \in 1..Len(doneFiles) :
        /\ doneFiles[a] = doneFiles[b]
        /\ doneFiles[a][manifestPath].text = doneFiles[b][manifestPath].text

C8_Witness ==
    /\ Len(doneFiles) = 2
    /\ pc = "done"

\* C9: within one render the 7 bond lines come first, then the 6 outer
\* disks, then the 6 inner disks: no outer disk is drawn after an inner one
\* and no line after a disk.
C9_DrawOrder ==
    LET ops == canvas.ops
        rank(o) == IF o.kind = "line" THEN 1 ELSE IF o.kind = "outer" THEN 2 ELSE 3
        count(kind) == Cardinality({j \in 1..Len(ops) : ops[j].kind = kind})
    IN  /\ \A a, b \in 1..Len(ops) : a < b => rank(ops[a]) <= rank(ops[b])
        /\ count("outer") > 0 => count("line") = 7
        /\ count("inner") > 0 => count("outer") = 6
        /\ cpc \in {"return", "returned"} =>
              /\ count("line") = 7
              /\ count("outer") = 6
              /\ count("inner") = 6

C9_Witness ==
    /\ cpc = "inner"
    /\ k = 4
    /\ arg = 2
    /\ Len(canvas.ops) = 16

\* C10: during the export the filenames in the in-memory manifest are among
\* the variant files already written, entries <= variant files <= entries + 1,
\* the output directory exists before a variant file is written, and the
\* manifest file is written once, after all 15 variant files.
C10_ManifestBuiltIncrementally ==
    LET im == contents.images
    IN  /\ \A j \in 1..Len(im) : PathOfEntry(im[j]) \in variantsWritten
        /\ Len(im) <= Cardinality(variantsWritten)
        /\ Cardinality(variantsWritten) <= Len(im) + 1
        /\ variantsWritten # {} =>
              (iconsetDir \in dirs /\ pc \notin {"create_primary", "makedirs"})
        /\ dumps <= 1
        /\ (manifestPath \in written) = (dumps = 1)
        /\ dumps = 1 => (Cardinality(variantsWritten) = 15 /\ Len(im) = 15)

C10_Witness ==
    /\ pc = "append"
    /\ i = 7
    /\ Len(contents.images) = 6
    /\ Cardinality(variantsWritten) = 7

====
